---- MODULE Spec2Model ----
(***************************************************************************)
(* Validation utilities of the wallet front end: address validation,       *)
(* transaction-fee classification, RPC response validation, and the        *)
(* account hook's update actions.                                          *)
(*                                                                         *)
(* Strings are sequences of one-character strings, so that substring,      *)
(* split, regular expressions and case conversion are computed.            *)
(***************************************************************************)
EXTENDS Integers, Sequences, FiniteSets, TLC

VARIABLES
    pc,          \* "call": the function is about to run; "return": it has returned
    fn,          \* the exported function that is called
    args,        \* its arguments (a record whose fields depend on fn)
    ret,         \* its return value (NoValue before it returns)
    line,        \* the source line of the return or throw statement that ended it
    accounts,    \* the account list of the store, as the account hook reads it
    dispatched,  \* the actions the account hook has dispatched, in order
    earlier      \* the arguments and result of the call the caller made before
                 \* this one, when it calls again (NoValue otherwise)

vars == <<pc, fn, args, ret, line, accounts, dispatched, earlier>>

NoValue == [void |-> TRUE]

(***************************************************************************)
(* Characters                                                              *)
(***************************************************************************)
Digits == {"0", "1", "2", "3", "4", "5", "6", "7", "8", "9"}
LowerHex == {"a", "b", "c", "d", "e", "f"}
UpperHex == {"A", "B", "C", "D", "E", "F"}
HexChars == Digits \cup LowerHex \cup UpperHex

\* String.prototype.toLowerCase / toUpperCase on one character
toLowerCase(c) ==
    CASE c = "A" -> "a" [] c = "B" -> "b" [] c = "C" -> "c" [] c = "D" -> "d"
      [] c = "E" -> "e" [] c = "F" -> "f" [] c = "G" -> "g" [] c = "X" -> "x"
      [] OTHER -> c

toUpperCase(c) ==
    CASE c = "a" -> "A" [] c = "b" -> "B" [] c = "c" -> "C" [] c = "d" -> "D"
      [] c = "e" -> "E" [] c = "f" -> "F" [] c = "g" -> "G" [] c = "x" -> "X"
      [] OTHER -> c

Min(a, b) == IF a <= b THEN a ELSE b
Max(a, b) == IF a >= b THEN a ELSE b

\* String.prototype.substring(0, n)
Prefix(s, n) == SubSeq(s, 1, Min(n, Len(s)))

(***************************************************************************)
(* Address validation                                                      *)
(***************************************************************************)
\* the {40} of the address regular expressions
ADDRESS_HEX_LENGTH == 40
\* hex digits of a keccak-256 digest printed with toString('hex')
HASH_HEX_LENGTH == 64

\* /^(0(x|X)[a-fA-F0-9]{40})$/
isValidMixedCaseETHAddress(address) ==
    /\ Len(address) = 2 + ADDRESS_HEX_LENGTH
    /\ address[1] = "0"
    /\ address[2] \in {"x", "X"}
    /\ \A i \in 3..Len(address) : address[i] \in HexChars

\* the pattern with the upper-case alternative left out: /^(0(x|X)([a-f0-9]{40}))$/
isValidLowerCaseETHAddress(address) ==
    /\ Len(address) = 2 + ADDRESS_HEX_LENGTH
    /\ address[1] = "0"
    /\ address[2] \in {"x", "X"}
    /\ \A i \in 3..Len(address) : address[i] \in LowerHex \cup Digits

\* /^(0(x|X)(([a-f0-9]{40})|([A-F0-9]{40})))$/
isValidUpperOrLowerCaseETHAddress(address) ==
    /\ Len(address) = 2 + ADDRESS_HEX_LENGTH
    /\ address[1] = "0"
    /\ address[2] \in {"x", "X"}
    /\ \/ \A i \in 3..Len(address) : address[i] \in LowerHex \cup Digits
       \/ \A i \in 3..Len(address) : address[i] \in UpperHex \cup Digits

\* isValidETHLikeAddress with the prefix test and the "neither pattern" branch
\* left out: only the checksum branches before the final return
ETHLikeReturnLineNoFormatGuard(address, checksumValid) ==
    LET isValidMixedCase == isValidMixedCaseETHAddress(address)
        isValidUpperOrLowerCase == isValidUpperOrLowerCaseETHAddress(address)
    IN  IF isValidMixedCase /\ ~isValidUpperOrLowerCase /\ ~checksumValid THEN 67
        ELSE IF isValidMixedCase /\ ~isValidUpperOrLowerCase /\ checksumValid THEN 70
        ELSE IF isValidUpperOrLowerCase /\ ~isValidMixedCase THEN 73
        ELSE 78

\* isValidETHLikeAddress with the "mixed case, but not checksummed" branch left out
ETHLikeReturnLineNoChecksumBranch(address, checksumValid) ==
    LET isValidMixedCase == isValidMixedCaseETHAddress(address)
        isValidUpperOrLowerCase == isValidUpperOrLowerCaseETHAddress(address)
    IN  IF Prefix(address, 2) \notin {<<"0", "x">>, <<"0", "X">>} THEN 64
        ELSE IF isValidMixedCase /\ ~isValidUpperOrLowerCase /\ checksumValid THEN 70
        ELSE IF isValidUpperOrLowerCase /\ ~isValidMixedCase THEN 73
        ELSE IF ~isValidUpperOrLowerCase /\ ~isValidMixedCase THEN 75
        ELSE 78

\* the line of the return statement isValidETHLikeAddress ends with
ETHLikeReturnLine(address, checksumValid) ==
    LET isValidMixedCase == isValidMixedCaseETHAddress(address)
        isValidUpperOrLowerCase == isValidUpperOrLowerCaseETHAddress(address)
    IN  IF Prefix(address, 2) \notin {<<"0", "x">>, <<"0", "X">>} THEN 64
        ELSE IF isValidMixedCase /\ ~isValidUpperOrLowerCase /\ ~checksumValid THEN 67
        ELSE IF isValidMixedCase /\ ~isValidUpperOrLowerCase /\ checksumValid THEN 70
        ELSE IF isValidUpperOrLowerCase /\ ~isValidMixedCase THEN 73
        ELSE IF ~isValidUpperOrLowerCase /\ ~isValidMixedCase THEN 75
        ELSE 78

\* the value returned at each return statement of isValidETHLikeAddress
isValidETHLikeAddress(address, checksumValid) ==
    ETHLikeReturnLine(address, checksumValid) \in {70, 73, 78}

\* A keccak-256 digest is not computed: the digest of the one string hashed in
\* a call is an input of the call, any digest being possible.  Only whether
\* hex digit i of the digest is >= 8 is read.
HashDigitHigh(hash, i) ==
    /\ i <= HASH_HEX_LENGTH
    /\ IF i = 1 THEN hash.first ELSE hash.rest

\* ethjs-util stripHexPrefix: removes a leading "0x" (not "0X")
stripHexPrefix(str) ==
    IF Prefix(str, 2) = <<"0", "x">> THEN SubSeq(str, 3, Len(str)) ELSE str

\* the loop shared by ethereumjs-util and rskjs-util toChecksumAddress
ChecksumCase(address, hash) ==
    LET stripped == [i \in 1..Len(stripHexPrefix(address)) |->
                        toLowerCase(stripHexPrefix(address)[i])]
    IN  <<"0", "x">> \o
        [i \in 1..Len(stripped) |->
            IF HashDigitHigh(hash, i) THEN toUpperCase(stripped[i]) ELSE stripped[i]]

\* ethereumjs-util toChecksumAddress(address), hash = keccak(stripped lower-case address)
toChecksumAddress(address, hash) == ChecksumCase(address, hash)

isChecksumAddress(address, hash) == address = toChecksumAddress(address, hash)

\* rskjs-util isValidChecksumAddress(address, chainId),
\* hash = keccak(chainId + "0x" + stripped lower-case address)
isValidChecksumRSKAddress(address, hash) ==
    /\ Len(address) = 2 + ADDRESS_HEX_LENGTH
    /\ Prefix(address, 2) = <<"0", "x">>
    /\ \A i \in 3..Len(address) : address[i] \in HexChars
    /\ ChecksumCase(address, hash) = address

isValidETHAddress(address, hash) ==
    isValidETHLikeAddress(address, isChecksumAddress(address, hash))

isValidRSKAddress(address, hash) ==
    isValidETHLikeAddress(address, isValidChecksumRSKAddress(address, hash))

\* the chain test with chain 31 left out
UsesRSKChecksumOnly30(chain) == chain = 30

\* getIsValidAddressFunction: chainId === 30 || chainId === 31
UsesRSKChecksum(chain) == chain = 30 \/ chain = 31

\* getIsValidAddressFunction(chainId)(address)
isValidAddress(address, chain, hashETH, hashRSK) ==
    IF UsesRSKChecksum(chain)
    THEN isValidRSKAddress(address, hashRSK)
    ELSE isValidETHAddress(address, hashETH)

(***************************************************************************)
(* Inputs of the address functions                                         *)
(***************************************************************************)
BodyChars == {"7", "a", "A", "g"}
AddressPrefixes == {<<"0", "x">>, <<"0", "X">>, <<"0">>, <<>>, <<"x", "0">>, <<"a", "A">>}
BodyLengths == {0, ADDRESS_HEX_LENGTH - 1, ADDRESS_HEX_LENGTH, ADDRESS_HEX_LENGTH + 1}

\* a body of n characters: `first`, then `fill`
Body(n, first, fill) == [i \in 1..n |-> IF i = 1 THEN first ELSE fill]

Addresses ==
    {p \o Body(n, c1, c2) :
        p \in AddressPrefixes, n \in BodyLengths, c1 \in BodyChars, c2 \in BodyChars}

Hashes == [first : BOOLEAN, rest : BOOLEAN]
ChainIds == {1, 30, 31}

InitAddress ==
    \/ /\ fn = "isValidETHLikeAddress"
       /\ args \in [address : Addresses, isChecksumValid : BOOLEAN]
    \/ /\ fn = "isValidETHAddress"
       /\ args \in [address : Addresses, ethHash : Hashes]
    \/ /\ fn = "isValidRSKAddress"
       /\ args \in [address : Addresses, chainId : ChainIds, rskHash : Hashes]
    \/ /\ fn = "isValidAddress"
       /\ args \in [address : Addresses, chainId : ChainIds,
                    ethHash : Hashes, rskHash : Hashes]

CallIsValidETHLikeAddress ==
    /\ pc = "call" /\ fn = "isValidETHLikeAddress"
    /\ ret' = isValidETHLikeAddress(args.address, args.isChecksumValid)
    /\ line' = ETHLikeReturnLine(args.address, args.isChecksumValid)
    /\ pc' = "return"
    /\ UNCHANGED <<fn, args, accounts, dispatched, earlier>>

CallIsValidETHAddress ==
    /\ pc = "call" /\ fn = "isValidETHAddress"
    /\ ret' = isValidETHAddress(args.address, args.ethHash)
    /\ line' = ETHLikeReturnLine(args.address, isChecksumAddress(args.address, args.ethHash))
    /\ pc' = "return"
    /\ UNCHANGED <<fn, args, accounts, dispatched, earlier>>

CallIsValidRSKAddress ==
    /\ pc = "call" /\ fn = "isValidRSKAddress"
    /\ ret' = isValidRSKAddress(args.address, args.rskHash)
    /\ line' = ETHLikeReturnLine(args.address, isValidChecksumRSKAddress(args.address, args.rskHash))
    /\ pc' = "return"
    /\ UNCHANGED <<fn, args, accounts, dispatched, earlier>>

CallIsValidAddress ==
    /\ pc = "call" /\ fn = "isValidAddress"
    /\ ret' = isValidAddress(args.address, args.chainId, args.ethHash, args.rskHash)
    /\ line' = IF UsesRSKChecksum(args.chainId)
               THEN ETHLikeReturnLine(args.address,
                        isValidChecksumRSKAddress(args.address, args.rskHash))
               ELSE ETHLikeReturnLine(args.address,
                        isChecksumAddress(args.address, args.ethHash))
    /\ pc' = "return"
    /\ UNCHANGED <<fn, args, accounts, dispatched, earlier>>

(***************************************************************************)
(* isValidETHRecipientAddress                                              *)
(***************************************************************************)
\* isValidENSName(address) comes from ./ens/validators: its answer for the
\* address of a call is an input of the call, either answer being possible
isValidENSName(a) == a.isENSName

\* the chain of tests without the branch for single-case addresses that are
\* not their own checksum
RecipientReturnLineNoSingleCaseBranch(a) ==
    LET ens == isValidENSName(a)
        mixed == isValidMixedCaseETHAddress(a.address)
        checksum == isChecksumAddress(a.address, a.ethHash)
        upperOrLower == isValidUpperOrLowerCaseETHAddress(a.address)
    IN  IF ens /\ a.resolutionErr THEN 87
        ELSE IF ens /\ ~a.resolutionErr THEN 95
        ELSE IF ~ens /\ mixed /\ checksum THEN 104
        ELSE IF ~ens /\ mixed /\ ~checksum /\ ~upperOrLower THEN 120
        ELSE IF ~ens /\ ~mixed THEN 128
        ELSE 135

\* the line of the return statement isValidETHRecipientAddress ends with
RecipientReturnLine(a) ==
    LET ens == isValidENSName(a)
        mixed == isValidMixedCaseETHAddress(a.address)
        checksum == isChecksumAddress(a.address, a.ethHash)
        upperOrLower == isValidUpperOrLowerCaseETHAddress(a.address)
    IN  IF ens /\ a.resolutionErr THEN 87
        ELSE IF ens /\ ~a.resolutionErr THEN 95
        ELSE IF ~ens /\ mixed /\ checksum THEN 104
        ELSE IF ~ens /\ mixed /\ ~checksum /\ upperOrLower THEN 112
        ELSE IF ~ens /\ mixed /\ ~checksum /\ ~upperOrLower THEN 120
        ELSE IF ~ens /\ ~mixed THEN 128
        ELSE 135

\* { success: false, name: 'ValidationError', type, message: translateRaw(key) }
ValidationError(type, key) ==
    [success |-> FALSE, name |-> "ValidationError", type |-> type, message |-> key]

\* the object each return statement of isValidETHRecipientAddress builds
isValidETHRecipientAddress(a) ==
    CASE RecipientReturnLine(a) = 87 -> ValidationError("ERROR", "TO_FIELD_ERROR")
      [] RecipientReturnLine(a) = 120 -> ValidationError("INFO_CIRCLE", "CHECKSUM_ERROR")
      [] RecipientReturnLine(a) = 128 -> ValidationError("ERROR", "TO_FIELD_ERROR")
      [] RecipientReturnLine(a) \in {95, 104, 112, 135} -> [success |-> TRUE]

\* a name of the kind the ENS resolves
EnsLikeNames == {<<"a", ".", "e", "t", "h">>}

InitRecipient ==
    /\ fn = "isValidETHRecipientAddress"
    /\ args \in [address : Addresses \cup EnsLikeNames, ethHash : Hashes,
                 isENSName : BOOLEAN, resolutionErr : BOOLEAN]

CallIsValidETHRecipientAddress ==
    /\ pc = "call" /\ fn = "isValidETHRecipientAddress"
    /\ ret' = isValidETHRecipientAddress(args)
    /\ line' = RecipientReturnLine(args)
    /\ pc' = "return"
    /\ UNCHANGED <<fn, args, accounts, dispatched, earlier>>

(***************************************************************************)
(* Arbitrary-precision integers (bn.js / ethers BigNumber)                 *)
(*                                                                         *)
(* A big number is a sequence of limbs in base 10^4, least significant     *)
(* first, without high zero limbs; zero is the empty sequence.             *)
(***************************************************************************)
LIMB_BASE == 10000
LIMB_DIGITS == 4

DigitVal(c) ==
    CASE c = "0" -> 0 [] c = "1" -> 1 [] c = "2" -> 2 [] c = "3" -> 3 [] c = "4" -> 4
      [] c = "5" -> 5 [] c = "6" -> 6 [] c = "7" -> 7 [] c = "8" -> 8 [] c = "9" -> 9

DigitChar(d) == <<"0", "1", "2", "3", "4", "5", "6", "7", "8", "9">>[d + 1]

\* The only element of a one-element set.  Operators below are written as
\* Only({e(x) : x \in {arg}}) so that an argument is evaluated once, before
\* the body reads it.
Only(S) == CHOOSE x \in S : TRUE

\* n zeros (none when n <= 0)
Zeros(n) == [i \in 1..n |-> "0"]

RECURSIVE BNNormalize(_)
BNNormalize(a) ==
    IF a # <<>> /\ a[Len(a)] = 0 THEN BNNormalize(SubSeq(a, 1, Len(a) - 1)) ELSE a

\* value of the decimal digits str[lo..hi]
RECURSIVE DigitsValue(_, _, _)
DigitsValue(str, lo, hi) ==
    IF lo > hi THEN 0 ELSE 10 * DigitsValue(str, lo, hi - 1) + DigitVal(str[hi])

\* bigNumberify(str) / new BN(str) of a string of decimal digits
bigNumberify(value) ==
    Only({LET n == Len(str)
              limbs == (n + LIMB_DIGITS - 1) \div LIMB_DIGITS
          IN  BNNormalize([j \in 1..limbs |->
                  DigitsValue(str, Max(1, n - LIMB_DIGITS * j + 1),
                              n - LIMB_DIGITS * (j - 1))])
          : str \in {value}})

\* the digits of a limb, most significant first, padded to `width`
RECURSIVE LimbDigits(_, _)
LimbDigits(v, width) ==
    IF width = 0 THEN <<>>
    ELSE LimbDigits(v \div 10, width - 1) \o <<DigitChar(v % 10)>>

\* the position of the first character of s that is not a leading zero
RECURSIVE LeftZerosEnd(_, _)
LeftZerosEnd(s, i) == IF i < Len(s) /\ s[i] = "0" THEN LeftZerosEnd(s, i + 1) ELSE i

StripLeftZeros(str) == Only({SubSeq(s, LeftZerosEnd(s, 1), Len(s)) : s \in {str}})

RECURSIVE BNDigits(_, _)
BNDigits(a, j) ==
    IF j = 0 THEN <<>> ELSE LimbDigits(a[j], LIMB_DIGITS) \o BNDigits(a, j - 1)

\* BigNumber.toString(): decimal digits, "0" for zero
BNToString(bn) ==
    Only({IF a = <<>> THEN <<"0">> ELSE StripLeftZeros(BNDigits(a, Len(a))) : a \in {bn}})

\* sum of a[i] * b[k + 1 - i] for i in lo..hi
RECURSIVE ConvAt(_, _, _, _, _)
ConvAt(a, b, k, lo, hi) ==
    IF lo > hi THEN 0 ELSE a[lo] * b[k + 1 - lo] + ConvAt(a, b, k, lo + 1, hi)

\* the limbs of the column sums conv[k..], with the carry into column k
RECURSIVE Propagate(_, _, _)
Propagate(conv, k, carryIn) ==
    IF k > Len(conv) THEN (IF carryIn = 0 THEN <<>> ELSE <<carryIn>>)
    ELSE Only({<<t % LIMB_BASE>> \o Propagate(conv, k + 1, t \div LIMB_BASE)
               : t \in {conv[k] + carryIn}})

\* BigNumber.mul
BNMul(x, y) ==
    Only({IF a = <<>> \/ b = <<>> THEN <<>>
          ELSE BNNormalize(Propagate(
                   [k \in 1..(Len(a) + Len(b) - 1) |->
                       ConvAt(a, b, k, Max(1, k + 1 - Len(b)), Min(Len(a), k))], 1, 0))
          : a \in {x}, b \in {y}})

\* a + 1
BNSucc(x) == Only({BNNormalize(Propagate(a \o <<0>>, 1, 1)) : a \in {x}})

\* compares a[1..j] with b[1..j] from the most significant limb down
RECURSIVE BNLtFrom(_, _, _)
BNLtFrom(a, b, j) ==
    IF j = 0 THEN FALSE
    ELSE IF a[j] # b[j] THEN a[j] < b[j]
    ELSE BNLtFrom(a, b, j - 1)

\* BigNumber.lt, .gt, .gte
BNLt(x, y) ==
    Only({IF Len(a) # Len(b) THEN Len(a) < Len(b) ELSE BNLtFrom(a, b, Len(a))
          : a \in {x}, b \in {y}})
BNGt(a, b) == BNLt(b, a)
BNGte(a, b) == ~BNLt(a, b)

(***************************************************************************)
(* Strings and numbers                                                     *)
(***************************************************************************)
\* index of the first occurrence of character sep in s at or after i, 0 if none
RECURSIVE IndexFrom(_, _, _)
IndexFrom(s, sep, i) ==
    IF i > Len(s) THEN 0 ELSE IF s[i] = sep THEN i ELSE IndexFrom(s, sep, i + 1)

\* String.prototype.split(sep) for a one-character separator
RECURSIVE Split(_, _)
Split(str, sep) ==
    Only({LET i == IndexFrom(s, sep, 1)
          IN  IF i = 0 THEN <<s>>
              ELSE <<SubSeq(s, 1, i - 1)>> \o Split(SubSeq(s, i + 1, Len(s)), sep)
          : s \in {str}})

\* String.prototype.padEnd(n, '0') and padStart(n, '0')
padEnd(str, n) == Only({s \o Zeros(n - Len(s)) : s \in {str}})
padStart(str, n) == Only({Zeros(n - Len(s)) \o s : s \in {str}})

\* the length of s without its trailing zeros, s read up to position n
RECURSIVE RightZerosEnd(_, _)
RightZerosEnd(s, n) == IF n > 0 /\ s[n] = "0" THEN RightZerosEnd(s, n - 1) ELSE n

StripRightZeros(str) == Only({SubSeq(s, 1, RightZerosEnd(s, Len(s))) : s \in {str}})

\* decimal digits of a natural number
RECURSIVE NatDigits(_)
NatDigits(n) ==
    IF n < 10 THEN <<DigitChar(n)>> ELSE NatDigits(n \div 10) \o <<DigitChar(n % 10)>>

\* the digit string `value` read with its last `decimal` digits as the fraction
baseToConvertedUnit(value, decimal) ==
    IF decimal = 0 THEN value
    ELSE Only({LET integerPart == SubSeq(paddedValue, 1, Len(paddedValue) - decimal)
                   fractionPart == StripRightZeros(
                       SubSeq(paddedValue, Len(paddedValue) - decimal + 1, Len(paddedValue)))
               IN  IF fractionPart # <<>> THEN integerPart \o <<".">> \o fractionPart
                   ELSE integerPart
               : paddedValue \in {padStart(value, decimal + 1)}})

\* the decimal string `value` as a digit string in units of 10^-decimal
convertedToBaseUnit(value, decimal) ==
    IF decimal = 0 THEN value
    ELSE Only({LET integerPart == parts[1]
                   fractionPart == IF Len(parts) >= 2 THEN parts[2] ELSE <<>>
               IN  integerPart \o padEnd(fractionPart, decimal)
               : parts \in {Split(value, ".")}})

\* A JavaScript number argument is a non-negative multiple of 10^-4 given as
\* its count of ten-thousandths.  Number.prototype.toString():
RATE_SCALE == 4
NumberToString(n) == baseToConvertedUnit(NatDigits(n), RATE_SCALE)

(***************************************************************************)
(* Transaction fee classification                                          *)
(***************************************************************************)
DEFAULT_ASSET_DECIMAL == 18
DEFAULT_RATE_DECIMAL == 4
DEFAULT_DECIMAL == DEFAULT_ASSET_DECIMAL + DEFAULT_RATE_DECIMAL
\* getDecimalFromEtherUnit('gwei')
GWEI_DECIMAL == 9
\* the fraction digits toFixed(4) keeps
FIXED_DIGITS == 4

\* /^[0-9]+(\.[0-9])?[0-9]*$/ without the "." alternative: /^[0-9]+$/
validIntegerRegex(str) ==
    /\ Len(str) >= 1
    /\ \A i \in 1..Len(str) : str[i] \in Digits

\* /^[0-9]+(\.[0-9])?[0-9]*$/
validInputRegex(str) ==
    \E k \in 1..Len(str) :
        /\ \A i \in 1..k : str[i] \in Digits
        /\ \/ k = Len(str)
           \/ /\ k + 2 <= Len(str)
              /\ str[k + 1] = "."
              /\ \A i \in (k + 2)..Len(str) : str[i] \in Digits

\* gasPriceToBase(gasPriceGwei).mul(new BN(gasLimit)): the largest fee in wei
gasStringsToMaxGasBN(gasPriceGwei, gasLimit) ==
    BNMul(bigNumberify(convertedToBaseUnit(gasPriceGwei, GWEI_DECIMAL)), bigNumberify(gasLimit))

\* ethAssetRate is [defined |-> FALSE, value |-> 0] for undefined
Truthy(n) == n.defined /\ n.value # 0

getAssetRate(a) == convertedToBaseUnit(NumberToString(a.assetRateUSD), DEFAULT_RATE_DECIMAL)
getAssetRateLocal(a) == convertedToBaseUnit(NumberToString(a.assetRateFiat), DEFAULT_RATE_DECIMAL)
getEthAssetRate(a) ==
    IF Truthy(a.ethAssetRate)
    THEN convertedToBaseUnit(NumberToString(a.assetRateUSD), DEFAULT_RATE_DECIMAL)
    ELSE <<"0">>

\* the constants validateTxFee computes once its inputs are well-formed;
\* txTransactionFeeInEthFiatValue is null (hasEthFiatValue false) when
\* ethAssetRate is undefined or not positive
TxFeeValues(a) ==
    Only({[txAmount |-> bigNumberify(convertedToBaseUnit(a.amount, DEFAULT_DECIMAL)),
           txFee |-> fee,
           txFeeFiatValue |-> BNMul(bigNumberify(getAssetRate(a)), fee),
           hasEthFiatValue |-> hasEth,
           txTransactionFeeInEthFiatValue |->
               IF hasEth THEN BNMul(bigNumberify(getEthAssetRate(a)), fee) ELSE <<>>]
          : fee \in {bigNumberify(BNToString(gasStringsToMaxGasBN(a.gasPrice, a.gasLimit)))},
            hasEth \in {Truthy(a.ethAssetRate) /\ a.ethAssetRate.value > 0}})

\* (ethAssetRate * ethFraction).toString(), ethFraction given in thousandths;
\* the product of the rates used here is exact in binary floating point
EthFractionString(a, ethFractionMilli) ==
    baseToConvertedUnit(
        BNToString(BNMul(bigNumberify(NatDigits(a.ethAssetRate.value)),
                         bigNumberify(NatDigits(ethFractionMilli)))),
        RATE_SCALE + 3)

\* isGreaterThanEthFraction with gt in place of gte
isStrictlyGreaterThanEthFraction(a, v, ethFractionMilli) ==
    IF Truthy(a.ethAssetRate) /\ v.hasEthFiatValue
    THEN BNGt(v.txTransactionFeeInEthFiatValue,
              bigNumberify(convertedToBaseUnit(EthFractionString(a, ethFractionMilli),
                                               DEFAULT_DECIMAL)))
    ELSE FALSE

isGreaterThanEthFraction(a, v, ethFractionMilli) ==
    IF Truthy(a.ethAssetRate) /\ v.hasEthFiatValue
    THEN BNGte(v.txTransactionFeeInEthFiatValue,
               bigNumberify(convertedToBaseUnit(EthFractionString(a, ethFractionMilli),
                                                DEFAULT_DECIMAL)))
    ELSE FALSE

InputsWellFormed(a) ==
    /\ validInputRegex(a.amount)
    /\ validInputRegex(a.gasLimit)
    /\ validInputRegex(a.gasPrice)

\* the minimum test with lte in place of lt
AmountBelowOrAtMinimum(v) ==
    ~BNGt(v.txAmount,
          bigNumberify(convertedToBaseUnit(<<"0", ".", "0", "0", "0", "0", "0", "1">>,
                                           DEFAULT_DECIMAL)))

\* txAmount.lt(bigNumberify(convertedToBaseUnit('0.000001', DEFAULT_DECIMAL)))
AmountBelowMinimum(v) ==
    BNLt(v.txAmount,
         bigNumberify(convertedToBaseUnit(<<"0", ".", "0", "0", "0", "0", "0", "1">>,
                                          DEFAULT_DECIMAL)))

FeeFiatAbove(v, usd) ==
    BNGt(v.txFeeFiatValue, bigNumberify(convertedToBaseUnit(usd, DEFAULT_DECIMAL)))

\* the "More than 100$ OR 0.5 ETH" test without the ETH alternative
VeryHighFeeFiatOnly(a, v) == FeeFiatAbove(v, <<"1", "0", "0">>)

\* More than 100$ OR 0.5 ETH
VeryHighFee(a, v) == FeeFiatAbove(v, <<"1", "0", "0">>) \/ isGreaterThanEthFraction(a, v, 500)
\* More than 25$ OR 0.15 ETH
HighFee(a, v) == FeeFiatAbove(v, <<"2", "5">>) \/ isGreaterThanEthFraction(a, v, 150)
\* More than 5$ OR 0.025 ETH
UseLowerFee(a, v) == FeeFiatAbove(v, <<"5">>) \/ isGreaterThanEthFraction(a, v, 25)

\* the fee-above-amount test with lte in place of lt
FeeAtOrAboveAmount(a, v) ==
    /\ ~a.isERC20
    /\ ~BNGt(v.txAmount,
             bigNumberify(convertedToBaseUnit(BNToString(v.txFee), DEFAULT_RATE_DECIMAL)))

\* !isERC20 && txAmount.lt(convertedToBaseUnit(txFee.toString(), DEFAULT_RATE_DECIMAL))
FeeAboveAmount(a, v) ==
    /\ ~a.isERC20
    /\ BNLt(v.txAmount,
            bigNumberify(convertedToBaseUnit(BNToString(v.txFee), DEFAULT_RATE_DECIMAL)))

\* the line of the return statement validateTxFee ends with
TxFeeReturnLine(a) ==
    IF ~InputsWellFormed(a) THEN 219
    ELSE Only({IF AmountBelowMinimum(v) THEN 265
               ELSE IF VeryHighFee(a, v) THEN 273
               ELSE IF HighFee(a, v) THEN 281
               ELSE IF UseLowerFee(a, v) THEN 289
               ELSE IF FeeAboveAmount(a, v) THEN 294
               ELSE 297
               : v \in {TxFeeValues(a)}})

\* the types of the two highest returns taken for one another
TxFeeTypeAtSwapped(l) ==
    CASE l = 219 -> "Invalid"
      [] l = 265 -> "None"
      [] l = 273 -> "Error-High-Tx-Fee"
      [] l = 281 -> "Error-Very-High-Tx-Fee"
      [] l = 289 -> "Error-Use-Lower"
      [] l = 294 -> "Warning"
      [] l = 297 -> "None"

\* the type each return statement passes to createTxFeeResponse
TxFeeTypeAt(l) ==
    CASE l = 219 -> "Invalid"
      [] l = 265 -> "None"
      [] l = 273 -> "Error-Very-High-Tx-Fee"
      [] l = 281 -> "Error-High-Tx-Fee"
      [] l = 289 -> "Error-Use-Lower"
      [] l = 294 -> "Warning"
      [] l = 297 -> "None"

\* parseFloat(str).toFixed(4) of a decimal string.  The digits after the
\* fourth decide the rounding; when they are exactly one half the binary
\* value of the float decides, so both results are possible.
\* the count n of 10^-4 printed with four fraction digits
FixedString(n) ==
    Only({SubSeq(d, 1, Len(d) - FIXED_DIGITS) \o <<".">> \o
          SubSeq(d, Len(d) - FIXED_DIGITS + 1, Len(d))
          : d \in {padStart(BNToString(n), FIXED_DIGITS + 1)}})

\* digits followed by the fraction padded to at least FIXED_DIGITS + 1 digits,
\* rounded to FIXED_DIGITS fraction digits
RoundFixed(integerPart, fraction) ==
    UNION {LET next == DigitVal(fraction[FIXED_DIGITS + 1])
               tail == StripRightZeros(SubSeq(fraction, FIXED_DIGITS + 2, Len(fraction)))
           IN  IF next < 5 THEN {FixedString(kept)}
               ELSE IF next > 5 \/ tail # <<>> THEN {FixedString(BNSucc(kept))}
               ELSE {FixedString(kept), FixedString(BNSucc(kept))}
           : kept \in {bigNumberify(integerPart \o SubSeq(fraction, 1, FIXED_DIGITS))}}

ParseFloatToFixed(str) ==
    UNION {UNION {RoundFixed(parts[1], fraction)
                  : fraction \in {padEnd(IF Len(parts) >= 2 THEN parts[2] ELSE <<>>,
                                         FIXED_DIGITS + 1)}}
           : parts \in {Split(str, ".")}}

\* the responses createTxFeeResponse(type) can build
createTxFeeResponse(a, type) ==
    UNION {
        LET txAmountFiatLocalValue == BNMul(rateLocal, v.txAmount)
            txFeeFiatLocalValue == BNMul(rateLocal, v.txFee)
        IN  {[type |-> type, amount |-> am, fee |-> fe] :
                am \in ParseFloatToFixed(baseToConvertedUnit(
                           BNToString(txAmountFiatLocalValue),
                           DEFAULT_DECIMAL + DEFAULT_RATE_DECIMAL)),
                fe \in ParseFloatToFixed(baseToConvertedUnit(
                           BNToString(txFeeFiatLocalValue), DEFAULT_DECIMAL))}
        : v \in {TxFeeValues(a)}, rateLocal \in {bigNumberify(getAssetRateLocal(a))}}

\* the responses validateTxFee can return at return statement l
validateTxFee(a, l) ==
    IF l = 219 THEN {[type |-> "Invalid"]} ELSE createTxFeeResponse(a, TxFeeTypeAt(l))

(***************************************************************************)
(* Inputs of validateTxFee                                                 *)
(***************************************************************************)
\* longest string tried character by character
MaxStrLen == 3

InputChars == {"1", ".", "a", "-"}
ShortStrings == UNION {[1..k -> InputChars] : k \in 0..MaxStrLen}

\* A gas limit is a whole number of gas units: new BN(gasLimit) is only
\* modelled for digit strings, so well-formed gas limits with a fraction are
\* left out.
GasLimitStrings == {s \in ShortStrings : validInputRegex(s) => IndexFrom(s, ".", 1) = 0}
OtherStrings == {<<"1">>, <<"a">>, <<>>}

Amounts ==
    { <<"0">>,
      <<"0", ".", "0", "0", "0", "0", "0", "0", "1">>,
      <<"0", ".", "0", "0", "0", "0", "0", "1">>,
      <<"0", ".", "0", "4">>,
      <<"0", ".", "0", "5">>,
      <<"1">> }
GasLimits == {<<"2", "1", "0", "0", "0">>, <<"1", "0", "0", "0", "0", "0">>}
GasPrices == {<<"1">>, <<"5", "0">>, <<"5", "0", "0">>, <<"5", "0", "1">>,
              <<"1", "5", "0", "0">>}
\* rates in ten-thousandths: 100, 500 and 2000 USD; 1 and 0.9 units of fiat
RatesUSD == {1000000, 5000000, 20000000}
RatesFiat == {10000, 9000}
Undefined == [defined |-> FALSE, value |-> 0]
Defined(v) == [defined |-> TRUE, value |-> v]
\* undefined, 0, 100 and 200 USD: 0.5, 0.15 and 0.025 of them are exact floats
EthAssetRates == {Undefined, Defined(0), Defined(1000000), Defined(2000000)}

FeeArgs(amounts, gasLimits, gasPrices, ratesUSD, ratesFiat, ethRates) ==
    [amount : amounts, gasLimit : gasLimits, gasPrice : gasPrices,
     assetRateUSD : ratesUSD, assetRateFiat : ratesFiat, isERC20 : BOOLEAN,
     ethAssetRate : ethRates]

InitTxFee ==
    /\ fn = "validateTxFee"
    /\ \/ args \in FeeArgs(Amounts, GasLimits, GasPrices, RatesUSD, RatesFiat, EthAssetRates)
       \/ args \in FeeArgs(ShortStrings, OtherStrings, OtherStrings,
                           {20000000}, {10000}, {Undefined, Defined(2000000)})
       \/ args \in FeeArgs(OtherStrings, GasLimitStrings, OtherStrings,
                           {20000000}, {10000}, {Undefined, Defined(2000000)})
       \/ args \in FeeArgs(OtherStrings, OtherStrings, ShortStrings,
                           {20000000}, {10000}, {Undefined, Defined(2000000)})

CallValidateTxFee ==
    /\ pc = "call" /\ fn = "validateTxFee"
    /\ line' = TxFeeReturnLine(args)
    /\ ret' \in validateTxFee(args, line')
    /\ pc' = "return"
    /\ UNCHANGED <<fn, args, accounts, dispatched, earlier>>

\* the gas price or gas limit `higher` is not below `lower` (both well-formed)
GasNotBelow(higher, lower) ==
    ~BNLt(bigNumberify(convertedToBaseUnit(higher, GWEI_DECIMAL)),
          bigNumberify(convertedToBaseUnit(lower, GWEI_DECIMAL)))

\* The caller asks again about the same transaction with a higher gas price,
\* a higher gas limit or both, the other arguments as they were.
CallAgainWithMoreGas ==
    /\ pc = "return" /\ fn = "validateTxFee"
    /\ earlier = NoValue
    /\ InputsWellFormed(args)
    /\ \E gasPrice \in GasPrices, gasLimit \in GasLimits :
          /\ GasNotBelow(gasPrice, args.gasPrice)
          /\ GasNotBelow(gasLimit, args.gasLimit)
          /\ ~(GasNotBelow(args.gasPrice, gasPrice) /\ GasNotBelow(args.gasLimit, gasLimit))
          /\ args' = [args EXCEPT !.gasPrice = gasPrice, !.gasLimit = gasLimit]
    /\ earlier' = [args |-> args, ret |-> ret, line |-> line]
    /\ pc' = "call"
    /\ ret' = NoValue
    /\ line' = 0
    /\ UNCHANGED <<fn, accounts, dispatched>>

(***************************************************************************)
(* RPC response validation                                                 *)
(*                                                                         *)
(* A JSON value is [t |-> its type, s |-> its characters when a string];   *)
(* t = "undefined" stands for a property the object does not have.         *)
(***************************************************************************)
Absent == [t |-> "undefined", s |-> <<>>]
JString(s) == [t |-> "string", s |-> s]
JOther(type) == [t |-> type, s |-> <<>>]

\* message: { type: 'string', maxLength: 2 }
MESSAGE_MAX_LENGTH == 2

\* jsonschema: an undefined instance passes `type` and `oneOf`
TypeIn(value, types) == value.t = "undefined" \/ value.t \in types

\* schema.RpcNode.properties.message without maxLength
MessageIsString(value) == TypeIn(value, {"string"})

\* schema.RpcNode.properties.message
MessageValid(value) ==
    /\ TypeIn(value, {"string"})
    /\ value.t = "string" => Len(value.s) <= MESSAGE_MAX_LENGTH

\* v.validate(response, schema.RpcNode).valid, response being an object
isValidResult(response) ==
    /\ TypeIn(response.jsonrpc, {"string"})
    /\ TypeIn(response.id, {"string", "integer"})
    /\ TypeIn(response.result, {"string", "array", "object"})
    /\ TypeIn(response.status, {"string"})
    /\ MessageValid(response.message)

Last(s) == s[Len(s)]

ErrorText(error) ==
    error.message \o <<" ">> \o (IF error.hasData THEN error.data ELSE <<>>)

\* formatErrors taking the first thing before the colons: split(':').shift()
formatErrorsFirstSegment(response, apiType) ==
    IF response.error.present
    THEN LET lines == Split(response.error.message, "\n")
         IN  IF Len(lines) > 2 THEN Split(lines[1], ":")[1]
             ELSE ErrorText(response.error)
    ELSE <<"I", "n", "v", "a", "l", "i", "d", " ">> \o apiType \o <<" ", "E", "r", "r", "o", "r">>

formatErrors(response, apiType) ==
    IF response.error.present
    THEN LET lines == Split(response.error.message, "\n")
         IN  IF Len(lines) > 2 THEN Last(Split(lines[1], ":"))
             ELSE ErrorText(response.error)
    ELSE <<"I", "n", "v", "a", "l", "i", "d", " ">> \o apiType \o <<" ", "E", "r", "r", "o", "r">>

\* enum API_NAME, by the validator that passes it
API_NAME(validator) ==
    CASE validator = "isValidGetBalance" ->
           <<"G", "e", "t", " ", "B", "a", "l", "a", "n", "c", "e">>
      [] validator = "isValidEstimateGas" ->
           <<"E", "s", "t", "i", "m", "a", "t", "e", " ", "G", "a", "s">>
      [] validator = "isValidCallRequest" ->
           <<"C", "a", "l", "l", " ", "R", "e", "q", "u", "e", "s", "t">>
      [] validator = "isValidTokenBalance" ->
           <<"T", "o", "k", "e", "n", " ", "B", "a", "l", "a", "n", "c", "e">>
      [] validator = "isValidTransactionCount" ->
           <<"T", "r", "a", "n", "s", "a", "c", "t", "i", "o", "n", " ", "C", "o", "u", "n", "t">>
      [] validator = "isValidTransactionByHash" ->
           <<"T", "r", "a", "n", "s", "a", "c", "t", "i", "o", "n", " ", "B", "y", " ", "H", "a", "s", "h">>
      [] validator = "isValidTransactionReceipt" ->
           <<"T", "r", "a", "n", "s", "a", "c", "t", "i", "o", "n", " ", "R", "e", "c", "e", "i", "p", "t">>
      [] validator = "isValidCurrentBlock" ->
           <<"C", "u", "r", "r", "e", "n", "t", " ", "B", "l", "o", "c", "k">>
      [] validator = "isValidRawTxApi" ->
           <<"R", "a", "w", " ", "T", "x">>
      [] validator = "isValidSendTransaction" ->
           <<"S", "e", "n", "d", " ", "T", "r", "a", "n", "s", "a", "c", "t", "i", "o", "n">>
      [] validator = "isValidSignMessage" ->
           <<"S", "i", "g", "n", " ", "M", "e", "s", "s", "a", "g", "e">>
      [] validator = "isValidGetAccounts" ->
           <<"G", "e", "t", " ", "A", "c", "c", "o", "u", "n", "t", "s">>
      [] validator = "isValidGetNetVersion" ->
           <<"N", "e", "t", " ", "V", "e", "r", "s", "i", "o", "n">>
      [] validator = "isValidRequestPermissions" ->
           <<"R", "e", "q", "u", "e", "s", "t", "_", "P", "e", "r", "m", "i", "s", "s", "i", "o", "n", "s">>
      [] validator = "isValidGetPermissions" ->
           <<"G", "e", "t", "_", "P", "e", "r", "m", "i", "s", "s", "i", "o", "n", "s">>

\* no validator passes a fallback
NoFallback(validator) == FALSE

\* the validators that pass a callback to isValidEthServiceResponse
HasFallback(validator) == validator = "isValidTokenBalance"

\* () => ({ result: 'Failed' })
TokenBalanceFallback(response) == [result |-> JString(<<"F", "a", "i", "l", "e", "d">>)]

\* the line isValidEthServiceResponse ends with
RpcReturnLine(validator, response) ==
    IF ~isValidResult(response)
    THEN IF HasFallback(validator) THEN 416 ELSE 418
    ELSE 420

\* isValidEthServiceResponse(response, schema.RpcNode)(apiName, cb): what it
\* returns or throws, and the calls of cb it makes
isValidEthServiceResponse(validator, response) ==
    CASE RpcReturnLine(validator, response) = 416 ->
            [threw |-> FALSE, value |-> TokenBalanceFallback(response),
             message |-> <<>>, cbCalls |-> <<response>>]
      [] RpcReturnLine(validator, response) = 418 ->
            [threw |-> TRUE, value |-> NoValue,
             message |-> formatErrors(response, API_NAME(validator)), cbCalls |-> <<>>]
      [] RpcReturnLine(validator, response) = 420 ->
            [threw |-> FALSE, value |-> response, message |-> <<>>, cbCalls |-> <<>>]

(***************************************************************************)
(* Inputs of the RPC validators                                            *)
(***************************************************************************)
RpcValidators ==
    {"isValidGetBalance",
     "isValidEstimateGas",
     "isValidCallRequest",
     "isValidTokenBalance",
     "isValidTransactionCount",
     "isValidTransactionByHash",
     "isValidTransactionReceipt",
     "isValidCurrentBlock",
     "isValidRawTxApi",
     "isValidSendTransaction",
     "isValidSignMessage",
     "isValidGetAccounts",
     "isValidGetNetVersion",
     "isValidRequestPermissions",
     "isValidGetPermissions"}

\* longest error message tried character by character
MaxErrorLen == 5

RECURSIVE Repeat(_, _)
Repeat(c, n) == IF n <= 0 THEN <<>> ELSE <<c>> \o Repeat(c, n - 1)

JsonrpcValues == {Absent, JString(<<"2", ".", "0">>), JOther("integer")}
IdValues == {Absent, JString(<<"1">>), JOther("integer"), JOther("number")}
ResultValues == {Absent, JString(<<"0", "x", "1">>), JOther("array"), JOther("object"),
                 JOther("null")}
StatusValues == {Absent, JString(<<"1">>), JOther("boolean")}
MessageValues == {Absent, JOther("integer")} \cup {JString(Repeat("m", n)) : n \in 0..MaxStrLen}

NoError == [present |-> FALSE, message |-> <<>>, hasData |-> FALSE, data |-> <<>>]
ErrorChars == {"e", ":", "\n"}
ErrorMessages == UNION {[1..k -> ErrorChars] : k \in 0..MaxErrorLen}
AllErrors ==
    {NoError} \cup
    {[present |-> TRUE, message |-> m, hasData |-> d # <<>>, data |-> d] :
        m \in ErrorMessages, d \in {<<>>, <<"d">>}}
FewErrors ==
    {NoError,
     [present |-> TRUE, message |-> <<"e", ":", "e", "\n", "e", "\n", "e">>,
      hasData |-> FALSE, data |-> <<>>]}

Responses(jsonrpcs, ids, results, statuses, messages, errors) ==
    [jsonrpc : jsonrpcs, id : ids, result : results, status : statuses,
     message : messages, error : errors]

AllShapes(errors) ==
    Responses(JsonrpcValues, IdValues, ResultValues, StatusValues, MessageValues, errors)
FewShapes(errors) ==
    Responses({JString(<<"2", ".", "0">>)}, {JOther("integer")},
              {Absent, JOther("null")}, {Absent},
              {Absent, JString(Repeat("m", MESSAGE_MAX_LENGTH + 1))}, errors)

InitRpc ==
    \/ /\ fn \in {"isValidGetBalance", "isValidTokenBalance"}
       /\ args \in [response : AllShapes(FewErrors) \cup FewShapes(AllErrors)]
    \/ /\ fn \in RpcValidators \ {"isValidGetBalance", "isValidTokenBalance"}
       /\ args \in [response : FewShapes(FewErrors)]

CallRpcValidator ==
    /\ pc = "call" /\ fn \in RpcValidators
    /\ ret' = isValidEthServiceResponse(fn, args.response)
    /\ line' = RpcReturnLine(fn, args.response)
    /\ pc' = "return"
    /\ UNCHANGED <<fn, args, accounts, dispatched, earlier>>

(***************************************************************************)
(* The account hook: the account list it reads from the store, and the     *)
(* actions it dispatches                                                   *)
(***************************************************************************)
\* most accounts in the list, most calls of the hook in one run
MaxAccounts == 2
MaxCalls == 2

Uuids == {"u1", "u2", "u3"}
\* isPrivate is optional on an account
PrivacyValues == {"undefined", "false", "true"}
\* transaction receipts, each known by its hash
TxReceipts == {"tx1", "tx2"}

Accounts ==
    [uuid : Uuids, isPrivate : PrivacyValues, label : {"a"},
     transactions : {<<>>, <<"tx1">>}]

\* account lists, every uuid in at most one account; the lists are tried in
\* one order of their uuids
AccountLists ==
    {l \in UNION {[1..n -> Accounts] : n \in 0..MaxAccounts} :
        \A i, j \in 1..Len(l) :
            i < j => \E u \in {<<"u1", "u2">>, <<"u1", "u3">>, <<"u2", "u3">>} :
                        l[i].uuid = u[1] /\ l[j].uuid = u[2]}

\* accounts.find((a) => a.uuid === uuid): its index, 0 when there is none
FindIndex(list, uuid) ==
    IF \E i \in 1..Len(list) : list[i].uuid = uuid
    THEN CHOOSE i \in 1..Len(list) :
            list[i].uuid = uuid /\ \A j \in 1..(i - 1) : list[j].uuid # uuid
    ELSE 0

\* the update action of the account slice
updateAccountAction(account) == [type |-> "accounts/update", payload |-> account]

\* the account slice's update reducer: the account of that uuid is replaced
updateAccountReducer(list, account) ==
    [i \in 1..Len(list) |-> IF list[i].uuid = account.uuid THEN account ELSE list[i]]

\* a toggle that only ever sets the flag
MarkPrivate(account) == [account EXCEPT !.isPrivate = "true"]

\* the account toggleAccountPrivacy sends: isPrivate negated, true when unset
TogglePrivacy(account) ==
    [account EXCEPT !.isPrivate = IF account.isPrivate = "true" THEN "false" ELSE "true"]

InitAccounts ==
    /\ fn = "useAccounts"
    /\ args = NoValue
    /\ accounts \in AccountLists

\* toggleAccountPrivacy(uuid): nothing happens for a uuid the list does not hold
ToggleAccountPrivacy ==
    /\ pc = "call" /\ fn = "useAccounts"
    /\ Len(dispatched) < MaxCalls
    /\ \E uuid \in Uuids :
          /\ args' = [call |-> "toggleAccountPrivacy", uuid |-> uuid, before |-> accounts]
          /\ IF FindIndex(accounts, uuid) = 0
             THEN UNCHANGED <<accounts, dispatched>>
             ELSE LET payload == TogglePrivacy(accounts[FindIndex(accounts, uuid)])
                  IN  /\ dispatched' = Append(dispatched, updateAccountAction(payload))
                      /\ accounts' = updateAccountReducer(accounts, payload)
    /\ UNCHANGED <<pc, fn, ret, line, earlier>>

\* the receipts of list other than tx, in their order
RECURSIVE WithoutTx(_, _)
WithoutTx(list, tx) ==
    IF list = <<>> THEN <<>>
    ELSE (IF list[1] = tx THEN <<>> ELSE <<list[1]>>) \o WithoutTx(Tail(list), tx)

\* the account addTxToAccount sends: tx put at the end of the transactions,
\* in place of the receipt of that hash if there was one
AddTx(account, tx) ==
    [account EXCEPT !.transactions = WithoutTx(account.transactions, tx) \o <<tx>>]

\* a removeTxFromAccount that drops the oldest receipt, whichever it is
RemoveFirstTx(account, tx) ==
    [account EXCEPT !.transactions =
        IF account.transactions = <<>> THEN <<>> ELSE Tail(account.transactions)]

\* the account removeTxFromAccount sends
RemoveTx(account, tx) ==
    [account EXCEPT !.transactions = WithoutTx(account.transactions, tx)]

\* addTxToAccount(account, tx), account being one of the list
AddTxToAccount ==
    /\ pc = "call" /\ fn = "useAccounts"
    /\ Len(dispatched) < MaxCalls
    /\ \E i \in 1..Len(accounts), tx \in TxReceipts :
          /\ args' = [call |-> "addTxToAccount", account |-> accounts[i], tx |-> tx]
          /\ dispatched' = Append(dispatched, updateAccountAction(AddTx(accounts[i], tx)))
          /\ accounts' = updateAccountReducer(accounts, AddTx(accounts[i], tx))
    /\ UNCHANGED <<pc, fn, ret, line, earlier>>

\* removeTxFromAccount(account, tx), account being one of the list
RemoveTxFromAccount ==
    /\ pc = "call" /\ fn = "useAccounts"
    /\ Len(dispatched) < MaxCalls
    /\ \E i \in 1..Len(accounts), tx \in TxReceipts :
          /\ args' = [call |-> "removeTxFromAccount", account |-> accounts[i], tx |-> tx]
          /\ dispatched' = Append(dispatched, updateAccountAction(RemoveTx(accounts[i], tx)))
          /\ accounts' = updateAccountReducer(accounts, RemoveTx(accounts[i], tx))
    /\ UNCHANGED <<pc, fn, ret, line, earlier>>

(***************************************************************************)
(* Specification                                                           *)
(***************************************************************************)
Init ==
    /\ pc = "call"
    /\ ret = NoValue
    /\ line = 0
    /\ dispatched = <<>>
    /\ earlier = NoValue
    /\ \/ (InitAddress \/ InitRecipient \/ InitTxFee \/ InitRpc) /\ accounts = <<>>
       \/ InitAccounts

Next ==
    \/ CallIsValidETHLikeAddress
    \/ CallIsValidETHAddress
    \/ CallIsValidRSKAddress
    \/ CallIsValidAddress
    \/ CallIsValidETHRecipientAddress
    \/ CallValidateTxFee
    \/ CallAgainWithMoreGas
    \/ CallRpcValidator
    \/ ToggleAccountPrivacy
    \/ AddTxToAccount
    \/ RemoveTxFromAccount

Spec == Init /\ [][Next]_vars

(***************************************************************************)
(* Address claims                                                          *)
(***************************************************************************)
Returned(f) == pc = "return" /\ fn = f

AddressFunctions ==
    {"isValidETHLikeAddress", "isValidETHAddress", "isValidRSKAddress", "isValidAddress"}

HexBody(address) == SubSeq(address, 3, Len(address))

HasChar(s, class) == \E i \in 1..Len(s) : s[i] \in class

\* "0x" or "0X" followed by exactly 40 hex digits
IsPrefixedHex40(address) ==
    /\ Len(address) = 42
    /\ SubSeq(address, 1, 2) \in {<<"0", "x">>, <<"0", "X">>}
    /\ \A i \in 3..42 : address[i] \in HexChars

\* ... whose hex digits hold both an upper-case and a lower-case letter
IsMixedCaseAddress(address) ==
    /\ IsPrefixedHex40(address)
    /\ HasChar(HexBody(address), UpperHex)
    /\ HasChar(HexBody(address), LowerHex)

\* ... whose letters are all lower-case or all upper-case
IsSingleCaseAddress(address) ==
    /\ IsPrefixedHex40(address)
    /\ ~(HasChar(HexBody(address), UpperHex) /\ HasChar(HexBody(address), LowerHex))

HasHexPrefix(address) ==
    /\ Len(address) >= 2
    /\ address[1] = "0"
    /\ address[2] = "x" \/ address[2] = "X"

\* C1: on a mixed-case address isValidETHLikeAddress returns its isChecksumValid
\* argument, and isValidETHAddress returns whether the address equals
\* toChecksumAddress(address).
C1_MixedCaseIffChecksum ==
    /\ (Returned("isValidETHLikeAddress") /\ IsMixedCaseAddress(args.address))
          => ret = args.isChecksumValid
    /\ (Returned("isValidETHAddress") /\ IsMixedCaseAddress(args.address))
          => ret = (args.address = toChecksumAddress(args.address, args.ethHash))

\* a mixed-case address that carries its checksum is accepted by isValidETHAddress
C1_Witness ==
    /\ Returned("isValidETHAddress")
    /\ IsMixedCaseAddress(args.address)
    /\ args.address = toChecksumAddress(args.address, args.ethHash)
    /\ ret = TRUE

C3_NoPrefixRejected ==
    (pc = "return" /\ fn \in AddressFunctions /\ ~HasHexPrefix(args.address))
        => ret = FALSE

\* 40 hex digits with no prefix are rejected with the checksum reported valid
C3_Witness ==
    /\ Returned("isValidETHLikeAddress")
    /\ Len(args.address) = 40
    /\ \A i \in 1..40 : args.address[i] \in HexChars
    /\ args.isChecksumValid
    /\ ret = FALSE

\* C4: isValidAddress is isValidRSKAddress on chains 30 and 31 and
\* isValidETHAddress on every other chain, and the two differ only on
\* mixed-case addresses.
C4_ChainDelegation ==
    Returned("isValidAddress") =>
        LET rsk == isValidRSKAddress(args.address, args.rskHash)
            eth == isValidETHAddress(args.address, args.ethHash)
        IN  /\ args.chainId \in {30, 31} => ret = rsk
            /\ args.chainId \notin {30, 31} => ret = eth
            /\ rsk # eth => IsMixedCaseAddress(args.address)

\* on chain 31 an address that only the RSK checksum accepts is valid
C4_Witness ==
    /\ Returned("isValidAddress")
    /\ args.chainId = 31
    /\ isValidRSKAddress(args.address, args.rskHash)
    /\ ~isValidETHAddress(args.address, args.ethHash)
    /\ ret = TRUE

(***************************************************************************)
(* Fee claims                                                              *)
(***************************************************************************)
IsDigitString(s) == Len(s) >= 1 /\ \A i \in 1..Len(s) : s[i] \in Digits

\* digits, or digits "." digits
MatchesNumberPattern(s) ==
    \/ IsDigitString(s)
    \/ \E i \in 2..(Len(s) - 1) :
          /\ s[i] = "."
          /\ IsDigitString(SubSeq(s, 1, i - 1))
          /\ IsDigitString(SubSeq(s, i + 1, Len(s)))

AllWellFormed(a) ==
    /\ MatchesNumberPattern(a.amount)
    /\ MatchesNumberPattern(a.gasLimit)
    /\ MatchesNumberPattern(a.gasPrice)

BNPow10(k) == bigNumberify(<<"1">> \o Zeros(k))

\* the decimal string s as an integer count of 10^-d
Scaled(s, d) ==
    LET dot == IndexFrom(s, ".", 1)
        mantissa == IF dot = 0 THEN s ELSE SubSeq(s, 1, dot - 1) \o SubSeq(s, dot + 1, Len(s))
        scale == IF dot = 0 THEN 0 ELSE Len(s) - dot
    IN  BNMul(bigNumberify(mantissa), BNPow10(d - scale))

BNNat(n) == bigNumberify(NatDigits(n))

\* the fee gasPrice (gwei) x gasLimit in wei
FeeWei(a) == BNMul(Scaled(a.gasPrice, 9), Scaled(a.gasLimit, 0))
\* its value at assetRateUSD, in units of 10^-22 USD
FeeUsdE22(a) == BNMul(BNNat(a.assetRateUSD), FeeWei(a))
\* a whole number of USD in the same unit
UsdE22(usd) == BNMul(BNNat(usd), BNPow10(22))
\* `milli` thousandths of one ETH at ethAssetRate, in the same unit
EthFractionE22(a, milli) ==
    BNMul(BNMul(BNNat(a.ethAssetRate.value), BNNat(milli)), BNPow10(15))
HasEthRate(a) == a.ethAssetRate.defined /\ a.ethAssetRate.value > 0

\* the amount in units of 10^-22, and 0.000001 in that unit
AmountE22(a) == Scaled(a.amount, 22)
MinAmountE22 == BNPow10(16)

FeeWorthMoreThan100USD(a) == BNGt(FeeUsdE22(a), UsdE22(100))
FeeMoreThanHalfEth(a) == HasEthRate(a) /\ BNGt(FeeUsdE22(a), EthFractionE22(a, 500))

\* C5 as stated: a well-formed call whose fee is worth more than $100 or more
\* than 0.5 ETH returns Error-Very-High-Tx-Fee for every amount.
C5_VeryHighForEveryAmount ==
    (Returned("validateTxFee") /\ AllWellFormed(args)
        /\ (FeeWorthMoreThan100USD(args) \/ FeeMoreThanHalfEth(args)))
    => ret.type = "Error-Very-High-Tx-Fee"

\* C5 amended: a well-formed call with an amount of at least 0.000001 whose fee
\* is worth more than $100, or more than 0.5 ETH at a positive ethAssetRate,
\* returns Error-Very-High-Tx-Fee; with a smaller amount it returns None.
C5_VeryHighFromMinimumAmount ==
    (Returned("validateTxFee") /\ AllWellFormed(args)
        /\ (FeeWorthMoreThan100USD(args) \/ FeeMoreThanHalfEth(args)))
    => IF BNGte(AmountE22(args), MinAmountE22)
       THEN ret.type = "Error-Very-High-Tx-Fee" /\ line = 273
       ELSE ret.type = "None"

\* a fee worth $100 or less but more than half an ETH is very high
C5_Witness ==
    /\ Returned("validateTxFee") /\ AllWellFormed(args)
    /\ BNGte(AmountE22(args), MinAmountE22)
    /\ ~FeeWorthMoreThan100USD(args)
    /\ FeeMoreThanHalfEth(args)
    /\ ret.type = "Error-Very-High-Tx-Fee"

\* C6: the result is exactly {type: 'Invalid'} when amount, gasLimit or gasPrice
\* fails the number pattern, and is never Invalid when all three match.
C6_InvalidIffMalformed ==
    Returned("validateTxFee") =>
        IF AllWellFormed(args)
        THEN ret.type # "Invalid" /\ DOMAIN ret = {"type", "amount", "fee"}
        ELSE ret = [type |-> "Invalid"]

\* only the gas price is malformed
C6_Witness ==
    /\ Returned("validateTxFee")
    /\ MatchesNumberPattern(args.amount)
    /\ MatchesNumberPattern(args.gasLimit)
    /\ ~MatchesNumberPattern(args.gasPrice)
    /\ ret = [type |-> "Invalid"]

\* C7: a well-formed call with an amount below 0.000001 returns None whatever
\* the fee is; an amount of exactly 0.000001 does not take that return.
C7_SmallAmountNone ==
    (Returned("validateTxFee") /\ AllWellFormed(args)) =>
        /\ BNLt(AmountE22(args), MinAmountE22) => ret.type = "None" /\ line = 265
        /\ AmountE22(args) = MinAmountE22 => line # 265

\* 0.0000001 of the asset with a fee worth more than $100
C7_Witness ==
    /\ Returned("validateTxFee") /\ AllWellFormed(args)
    /\ args.amount = <<"0", ".", "0", "0", "0", "0", "0", "0", "1">>
    /\ FeeWorthMoreThan100USD(args)
    /\ ret.type = "None"

(***************************************************************************)
(* RPC claims                                                              *)
(***************************************************************************)
\* the validators that call isValidEthServiceResponse without a callback
WithoutFallback == RpcValidators \ {"isValidTokenBalance"}

\* the response breaks schema.RpcNode: a member of a type the schema does not
\* allow, or a message longer than two characters
FailsSchema(response) ==
    \/ response.jsonrpc.t \notin {"undefined", "string"}
    \/ response.id.t \notin {"undefined", "string", "integer"}
    \/ response.result.t \notin {"undefined", "string", "array", "object"}
    \/ response.status.t \notin {"undefined", "string"}
    \/ response.message.t \notin {"undefined", "string"}
    \/ response.message.t = "string" /\ Len(response.message.s) > 2

Contains(s, part) ==
    \E i \in 1..(Len(s) - Len(part) + 1) : SubSeq(s, i, i + Len(part) - 1) = part

Count(s, c) == Cardinality({i \in 1..Len(s) : s[i] = c})

\* the text before the first line break
FirstLine(s) ==
    IF Count(s, "\n") = 0 THEN s
    ELSE SubSeq(s, 1, (CHOOSE i \in 1..Len(s) :
                          s[i] = "\n" /\ \A j \in 1..(i - 1) : s[j] # "\n") - 1)

\* the text after the last colon (all of it when there is no colon)
AfterLastColon(s) ==
    IF Count(s, ":") = 0 THEN s
    ELSE SubSeq(s, (CHOOSE i \in 1..Len(s) :
                       s[i] = ":" /\ \A j \in (i + 1)..Len(s) : s[j] # ":") + 1, Len(s))

\* C8 as stated: a schema-invalid response given to a validator without a
\* fallback throws an Error whose message contains the first line of
\* response.error.message.
C8_MessageContainsFirstLine ==
    (pc = "return" /\ fn \in WithoutFallback /\ FailsSchema(args.response)
        /\ args.response.error.present)
    => /\ ret.threw
       /\ Contains(ret.message, FirstLine(args.response.error.message))

\* C8 amended: the call throws; for an error message of more than two lines the
\* Error's message is the text after the last colon of its first line, for one
\* of one or two lines it is the whole message, a space and error.data, so it
\* contains the first line whenever that line has no colon or the message has
\* at most two lines.
C8_MessageFromFirstLine ==
    (pc = "return" /\ fn \in WithoutFallback /\ FailsSchema(args.response)
        /\ args.response.error.present)
    => LET error == args.response.error
           first == FirstLine(error.message)
       IN  /\ ret.threw /\ line = 418
           /\ IF Count(error.message, "\n") >= 2
              THEN ret.message = AfterLastColon(first)
              ELSE ret.message = error.message \o <<" ">> \o error.data
           /\ (Count(error.message, "\n") < 2 \/ Count(first, ":") = 0)
                 => Contains(ret.message, first)

\* a stack trace of three lines whose first line holds a colon
C8_Witness ==
    /\ pc = "return" /\ fn = "isValidGetBalance" /\ FailsSchema(args.response)
    /\ args.response.error.present
    /\ Count(args.response.error.message, "\n") = 2
    /\ Count(FirstLine(args.response.error.message), ":") = 1
    /\ ret.threw
    /\ ret.message = <<"e">>

\* C9: isValidTokenBalance, the validator with a fallback, calls the fallback
\* once with the schema-invalid response, returns its result {result: 'Failed'}
\* and does not throw.
C9_FallbackInsteadOfThrow ==
    (pc = "return" /\ fn = "isValidTokenBalance" /\ FailsSchema(args.response))
    => /\ ~ret.threw
       /\ ret.cbCalls = <<args.response>>
       /\ ret.value = [result |-> JString(<<"F", "a", "i", "l", "e", "d">>)]
       /\ line = 416

\* an invalid response carrying an error goes to the fallback all the same
C9_Witness ==
    /\ pc = "return" /\ fn = "isValidTokenBalance" /\ FailsSchema(args.response)
    /\ args.response.error.present
    /\ ~ret.threw
    /\ Len(ret.cbCalls) = 1

IsCall(a, name) == "call" \in DOMAIN a /\ a.call = name

\* the receipts of a transactions list
Receipts(list) == {list[i] : i \in 1..Len(list)}

\* b is a with at most the transactions changed
SameButTransactions(a, b) ==
    /\ DOMAIN b = DOMAIN a
    /\ \A f \in DOMAIN a \ {"transactions"} : b[f] = a[f]

LastDispatched(log) == log[Len(log)]

\* this step is a call of the hook's function `name`
HookCall(name) == fn = "useAccounts" /\ IsCall(args', name)

\* the step dispatches one update action, after those dispatched before
DispatchesOneUpdate ==
    /\ Len(dispatched') = Len(dispatched) + 1
    /\ SubSeq(dispatched', 1, Len(dispatched)) = dispatched
    /\ LastDispatched(dispatched').type = "accounts/update"

AddTxPayloadHoldsTx ==
    HookCall("addTxToAccount") =>
        /\ DispatchesOneUpdate
        /\ SameButTransactions(args'.account, LastDispatched(dispatched').payload)
        /\ args'.tx \in Receipts(LastDispatched(dispatched').payload.transactions)

RemoveTxPayloadLacksTx ==
    HookCall("removeTxFromAccount") =>
        /\ DispatchesOneUpdate
        /\ SameButTransactions(args'.account, LastDispatched(dispatched').payload)
        /\ args'.tx \notin Receipts(LastDispatched(dispatched').payload.transactions)

\* this step removes the receipt the step before it added, from the account
\* that step sent
RemovesJustAdded ==
    /\ HookCall("removeTxFromAccount") /\ IsCall(args, "addTxToAccount")
    /\ args'.tx = args.tx
    /\ args'.account = LastDispatched(dispatched).payload

FeeWorthMoreThan(a, usd) == BNGt(FeeUsdE22(a), UsdE22(usd))

\* an ETH rate is given and the fee is worth at least `milli` thousandths of
\* one ETH at that rate
FeeAtLeastEthFraction(a, milli) ==
    HasEthRate(a) /\ BNGte(FeeUsdE22(a), EthFractionE22(a, milli))

TripsVeryHigh(a) == FeeWorthMoreThan(a, 100) \/ FeeAtLeastEthFraction(a, 500)
TripsHigh(a) == FeeWorthMoreThan(a, 25) \/ FeeAtLeastEthFraction(a, 150)
TripsUseLower(a) == FeeWorthMoreThan(a, 5) \/ FeeAtLeastEthFraction(a, 25)

\* a well-formed call with an amount of at least 0.000001 has returned
ReturnedClassified ==
    /\ Returned("validateTxFee") /\ AllWellFormed(args)
    /\ BNGte(AmountE22(args), MinAmountE22)

FeeE22(a) == BNMul(FeeWei(a), BNPow10(4))

C14_ValidReturnedUnchanged ==
    (pc = "return" /\ fn \in RpcValidators) =>
        IF FailsSchema(args.response)
        THEN line \in {416, 418} /\ ret.value # args.response
        ELSE /\ ~ret.threw
             /\ ret.value = args.response
             /\ ret.cbCalls = <<>>
             /\ line = 420

\* a response with none of the schema's properties, but an error member
C14_Witness ==
    /\ pc = "return" /\ fn = "isValidTokenBalance"
    /\ \A p \in {"jsonrpc", "id", "result", "status", "message"} :
          args.response[p].t = "undefined"
    /\ args.response.error.present
    /\ ret.value = args.response
    /\ ret.cbCalls = <<>>

(***************************************************************************)
(* Monotonicity in the fee                                                 *)
(***************************************************************************)
\* None < Warning < Error-Use-Lower < Error-High-Tx-Fee < Error-Very-High-Tx-Fee
Severity(type) ==
    CASE type = "None" -> 0
      [] type = "Warning" -> 1
      [] type = "Error-Use-Lower" -> 2
      [] type = "Error-High-Tx-Fee" -> 3
      [] type = "Error-Very-High-Tx-Fee" -> 4

\* b is a with gasPrice, gasLimit or both raised and nothing else changed
OnlyGasRaised(a, b) ==
    /\ b.amount = a.amount /\ b.isERC20 = a.isERC20
    /\ b.assetRateUSD = a.assetRateUSD /\ b.assetRateFiat = a.assetRateFiat
    /\ b.ethAssetRate = a.ethAssetRate
    /\ BNGte(Scaled(b.gasPrice, 9), Scaled(a.gasPrice, 9))
    /\ BNGte(Scaled(b.gasLimit, 0), Scaled(a.gasLimit, 0))
    /\ BNGt(FeeWei(b), FeeWei(a))

\* C15: for an amount of at least 0.000001, a call with a higher gas price or
\* gas limit and otherwise the same arguments returns a type no less severe
\* than the call before it.
C15_MoreGasNoLessSevere ==
    (ReturnedClassified /\ earlier # NoValue)
    => /\ OnlyGasRaised(earlier.args, args)
       /\ Severity(ret.type) >= Severity(earlier.ret.type)

\* one more gwei turns a Warning into Error-Use-Lower
C15_Witness ==
    /\ ReturnedClassified /\ earlier # NoValue
    /\ earlier.ret.type = "Warning"
    /\ ret.type = "Error-Use-Lower"

(***************************************************************************)
(* Recipient address claims                                                *)
(***************************************************************************)
\* C16: for an address that is not a valid ENS name, success is what
\* isValidETHAddress returns, whatever the resolution error; the failure is
\* CHECKSUM_ERROR for a mixed-case 40-hex address that is not its checksum and
\* TO_FIELD_ERROR for a string that is not 0x/0X and 40 hex digits; for a valid
\* ENS name success is true iff there is no resolution error; the last return
\* statement is never reached.
C16_RecipientAgreesWithETHAddress ==
    Returned("isValidETHRecipientAddress") =>
        /\ line # 135
        /\ IF args.isENSName
           THEN ret.success <=> ~args.resolutionErr
           ELSE /\ ret.success = isValidETHAddress(args.address, args.ethHash)
                /\ (IsMixedCaseAddress(args.address)
                      /\ args.address # toChecksumAddress(args.address, args.ethHash))
                     => ~ret.success /\ ret.message = "CHECKSUM_ERROR"
                /\ ~IsPrefixedHex40(args.address)
                     => ~ret.success /\ ret.message = "TO_FIELD_ERROR"

\* an all-lower-case address that is not its own checksum is accepted, with a
\* resolution error given
C16_Witness ==
    /\ Returned("isValidETHRecipientAddress")
    /\ ~args.isENSName /\ args.resolutionErr
    /\ IsSingleCaseAddress(args.address)
    /\ args.address # toChecksumAddress(args.address, args.ethHash)
    /\ ret = [success |-> TRUE]
    /\ line = 112

====
